---- MODULE Spec2Model ----
(***************************************************************************)
(* pymarc MARC-in-CSV codec: CSVWriter (writer.py) and CSVHandler           *)
(* (marccsv.py); the format writers (writer.py) and the HTML entity         *)
(* transcoder (htmlutils.py).  Python strings are sequences of one-character strings;    *)
(* a Python dict is the sequence of its [key, value] items in insertion     *)
(* order.                                                                   *)
(***************************************************************************)
EXTENDS Integers, Sequences, FiniteSets, TLC

VARIABLES marc_tags, csv_dict_writer, file_handle, call, used, records, texts, format_writer

vars == <<marc_tags, csv_dict_writer, file_handle, call, used, records, texts, format_writer>>

(* ------------------------------ bounds ---------------------------------- *)
MaxRecords == 2
MaxCalls == 3
MaxDecoded == 1
MaxLen == 2
MaxEscapes == 2

(* ------------------------------ strings --------------------------------- *)
\* chr(31), the unit separator, as one character
US == "US"

\* Python None where a str is expected (Field.data of a data field)
None == <<"None">>

\* Python None where a single character is expected (an absent indicator)
NoneChar == "None"

\* ord(c) for the characters the model uses
Ord(c) ==
  CASE c = US -> 31 [] c = " " -> 32 [] c = "#" -> 35 [] c = "$" -> 36
    [] c = "&" -> 38 [] c = ";" -> 59
    [] c = "0" -> 48 [] c = "1" -> 49 [] c = "2" -> 50 [] c = "3" -> 51
    [] c = "4" -> 52 [] c = "5" -> 53 [] c = "6" -> 54 [] c = "7" -> 55
    [] c = "8" -> 56 [] c = "9" -> 57
    [] c = "D" -> 68 [] c = "E" -> 69 [] c = "G" -> 71 [] c = "I" -> 73
    [] c = "L" -> 76 [] c = "O" -> 79 [] c = "P" -> 80
    [] c = "R" -> 82 [] c = "\\" -> 92 [] c = "_" -> 95
    [] c = "a" -> 97 [] c = "c" -> 99 [] c = "d" -> 100 [] c = "e" -> 101
    [] c = "f" -> 102 [] c = "i" -> 105 [] c = "l" -> 108 [] c = "o" -> 111
    [] c = "g" -> 103 [] c = "m" -> 109 [] c = "p" -> 112
    [] c = "r" -> 114 [] c = "t" -> 116 [] c = "u" -> 117 [] c = "x" -> 120
    [] c = "U+00E9" -> 233 [] c = "U+0101" -> 257 [] c = "U+0152" -> 338
    [] c = "U+0301" -> 769 [] c = "U+0304" -> 772 [] c = "U+0308" -> 776 [] c = "U+0399" -> 921
    [] c = "U+03AA" -> 938 [] c = "U+0416" -> 1046

\* a < b for two str, as Python compares them (by code point, then length)
RECURSIVE StrLess(_, _)
StrLess(a, b) ==
  IF b = <<>> THEN FALSE
  ELSE IF a = <<>> THEN TRUE
  ELSE IF Ord(Head(a)) # Ord(Head(b)) THEN Ord(Head(a)) < Ord(Head(b))
  ELSE StrLess(Tail(a), Tail(b))

RECURSIVE InsertSorted(_, _)
InsertSorted(x, s) ==
  IF s = <<>> THEN <<x>>
  ELSE IF StrLess(x, Head(s)) THEN <<x>> \o s
  ELSE <<Head(s)>> \o InsertSorted(x, Tail(s))

\* sorted(list of str): stable, ascending
RECURSIVE sorted(_)
sorted(s) ==
  IF s = <<>> THEN <<>>
  ELSE InsertSorted(s[Len(s)], sorted(SubSeq(s, 1, Len(s) - 1)))

\* str(n) for n >= 0
RECURSIVE str(_)
str(n) ==
  LET digit == <<"0", "1", "2", "3", "4", "5", "6", "7", "8", "9">>[(n % 10) + 1]
  IN IF n < 10 THEN <<digit>> ELSE str(n \div 10) \o <<digit>>

\* sep.join(parts)
RECURSIVE join(_, _)
join(sep, parts) ==
  IF parts = <<>> THEN <<>>
  ELSE IF Len(parts) = 1 THEN parts[1]
  ELSE parts[1] \o sep \o join(sep, Tail(parts))

\* s.replace(old, new) for single characters
replace(s, old, new) == [i \in 1..Len(s) |-> IF s[i] = old THEN new ELSE s[i]]

\* position of the first c in s, 0 when there is none
RECURSIVE find(_, _)
find(s, c) ==
  IF s = <<>> THEN 0
  ELSE IF Head(s) = c THEN 1
  ELSE LET r == find(Tail(s), c) IN IF r = 0 THEN 0 ELSE r + 1

\* s.split(c): every piece, empty ones included
RECURSIVE split(_, _)
split(s, c) ==
  LET p == find(s, c)
  IN IF p = 0 THEN <<s>>
     ELSE <<SubSeq(s, 1, p - 1)>> \o split(SubSeq(s, p + 1, Len(s)), c)

\* s[:n]
prefix(s, n) == SubSeq(s, 1, IF Len(s) < n THEN Len(s) ELSE n)

\* c in s
contains(s, c) == \E i \in 1..Len(s) : s[i] = c

(* ------------------------------- dicts ---------------------------------- *)
HasKey(d, k) == \E i \in 1..Len(d) : d[i].key = k

\* d[k] = v
DictSet(d, k, v) ==
  IF HasKey(d, k)
  THEN [i \in 1..Len(d) |-> IF d[i].key = k THEN [key |-> k, value |-> v] ELSE d[i]]
  ELSE Append(d, [key |-> k, value |-> v])

\* d.get(k, default)
DictGet(d, k, default) ==
  IF HasKey(d, k) THEN d[CHOOSE i \in 1..Len(d) : d[i].key = k].value ELSE default

(* --------------------------- column names ------------------------------- *)
LDR == <<"L", "D", "R">>
FIELD_ORDER == <<"f", "i", "e", "l", "d", "_", "o", "r", "d", "e", "r">>
T001 == <<"0", "0", "1">>
T245 == <<"2", "4", "5">>
T260 == <<"2", "6", "0">>
T650 == <<"6", "5", "0">>

(* ---------------------------- record model ------------------------------ *)
Spaces(n) == [i \in 1..n |-> " "]

\* the leader of Record(): "          22        4500"
DefaultLeader == Spaces(10) \o <<"2", "2">> \o Spaces(8) \o <<"4", "5", "0", "0">>

\* the leader of the records handed to the writer
RecordLeader == Spaces(5) \o <<"c", "a", "a">> \o Spaces(2) \o <<"2", "2">> \o Spaces(8) \o <<"4", "5", "0", "0">>

Subfield(code, value) == [code |-> code, value |-> value]

\* Field(tag=..., indicators=Indicators(first, second), subfields=[...])
DataField(tag, first, second, subfields) ==
  [tag |-> tag, indicator1 |-> first, indicator2 |-> second,
   subfields |-> subfields, data |-> None]

\* Field(tag=..., data=...)
ControlField(tag, data) ==
  [tag |-> tag, indicator1 |-> NoneChar, indicator2 |-> NoneChar,
   subfields |-> <<>>, data |-> data]

\* the field of csvTest.setUp
D245 == DataField(T245, "1", "0",
          <<Subfield("a", <<"P", "y", "t", "h", "o", "n">>),
            Subfield("c", <<"G", "u", "i", "d", "o">>)>>)

\* a data field with a blank and an empty indicator
D260 == DataField(T260, " ", "", <<Subfield("a", <<"x">>)>>)

\* a data field that has no subfields
D650 == DataField(T650, "1", " ", <<>>)

C001 == ControlField(T001, <<"i", "d">>)

SeqsUpTo(S, n) == UNION {[1..k -> S] : k \in 0..n}

Record(leader, fields) == [type |-> "Record", leader |-> leader, fields |-> fields]

\* an object that is not a Record
NotARecord == [type |-> "str", leader |-> <<>>, fields |-> <<>>]

\* the field lists of the records handed to the writer: no field; one data field
\* (record A); two tags in sorted order (record B) and out of it; a repeated
\* control field around a data field; a data field without subfields; a
\* repeated data field
FieldLists ==
  {<<>>, <<D245>>, <<D245, D260>>, <<D260, D245>>, <<C001, D245, C001>>,
   <<D650>>, <<D245, D245>>}

Records == {Record(RecordLeader, fs) : fs \in FieldLists}

\* isinstance(record, Record)
IsRecord(record) == record.type = "Record"

\* the tag lists handed to add_tags
TagLists == {<<T245>>, <<T001, T001 \o <<"_", "2">>>>, <<T245, T260>>}

(* ------------------------------ CSVWriter ------------------------------- *)
\* tag_counts[marc_field.tag] once the i-th field has been counted
tag_counts(fields, i) == Cardinality({j \in 1..i : fields[j].tag = fields[i].tag})

\* cur_tag of the i-th field: the tag, or f"{tag}_{n}" from the second one on
cur_tag(fields, i) ==
  IF tag_counts(fields, i) > 1
  THEN fields[i].tag \o <<"_">> \o str(tag_counts(fields, i))
  ELSE fields[i].tag

\* indicator1 / indicator2 as written: blank, empty and None become a backslash
indicator(ind) ==
  LET first == IF ind # " " THEN ind ELSE "\\"
  IN IF first \in {"", NoneChar} THEN "\\" ELSE first

\* ''.join([f'${s.code}{s.value}' for s in marc_field.subfields])
RECURSIVE subfields_text(_)
subfields_text(subfields) ==
  IF subfields = <<>> THEN <<>>
  ELSE <<"$", Head(subfields).code>> \o Head(subfields).value
       \o subfields_text(Tail(subfields))

\* the cell of a field that has subfields
data_cell(marc_field) ==
  <<indicator(marc_field.indicator1), indicator(marc_field.indicator2)>>
  \o subfields_text(marc_field.subfields)

\* the value write_all stores for a field
field_cell(marc_field) ==
  IF marc_field.subfields # <<>> THEN data_cell(marc_field) ELSE marc_field.data

\* the key write_all stores a field's cell under
write_all_key(fields, i) == cur_tag(fields, i)

\* the key write stores a field's cell under
write_key(fields, i) ==
  IF fields[i].subfields # <<>> THEN cur_tag(fields, i) ELSE fields[i].tag

\* write_all with the registration of new column keys left out
register_nothing(tags, key) == tags

\* if cur_tag not in self.marc_tags: self.marc_tags.append(cur_tag)
register(tags, key) ==
  IF \E j \in 1..Len(tags) : tags[j] = key THEN tags ELSE Append(tags, key)

\* write_all: the inner loop over record.get_fields(), fields i..n
RECURSIVE write_all_fields(_, _, _, _, _)
write_all_fields(fields, i, tags, csv_record, csv_fields) ==
  IF i > Len(fields)
  THEN [tags |-> tags,
        csv_record |-> DictSet(csv_record, FIELD_ORDER, join(<<" ">>, csv_fields))]
  ELSE LET key == cur_tag(fields, i)
       IN write_all_fields(fields, i + 1,
            register(tags, key),
            DictSet(csv_record, write_all_key(fields, i), field_cell(fields[i])),
            Append(csv_fields, key))

\* write_all: the loop over records; stops at the first element that is no Record
RECURSIVE write_all_records(_, _, _)
write_all_records(recs, tags, csv_records) ==
  IF recs = <<>> THEN [tags |-> tags, csv_records |-> csv_records, raised |-> "none"]
  ELSE IF ~IsRecord(Head(recs))
  THEN [tags |-> tags, csv_records |-> csv_records, raised |-> "WriteNeedsRecord"]
  ELSE LET r == write_all_fields(Head(recs).fields, 1, tags,
                  <<[key |-> LDR, value |-> Head(recs).leader]>>, <<>>)
       IN write_all_records(Tail(recs), r.tags, Append(csv_records, r.csv_record))

\* write: the loop over record.get_fields(), fields i..n
RECURSIVE write_fields(_, _, _, _)
write_fields(fields, i, tags, csv_record) ==
  IF i > Len(fields) THEN csv_record
  ELSE IF ~\E j \in 1..Len(tags) : tags[j] = cur_tag(fields, i)
  THEN write_fields(fields, i + 1, tags, csv_record)
  ELSE write_fields(fields, i + 1, tags,
         DictSet(csv_record, write_key(fields, i),
                 IF fields[i].subfields # <<>> THEN data_cell(fields[i])
                 ELSE fields[i].data))

(* ---------------------------- csv.DictWriter ---------------------------- *)
NoWriter == [made |-> FALSE, shared |-> FALSE, fieldnames |-> <<>>]

\* DictWriter(file_handle, self.marc_tags): fieldnames is the marc_tags list itself
SharedWriter == [made |-> TRUE, shared |-> TRUE, fieldnames |-> <<>>]

\* write_all not keeping the DictWriter it made in self.csv_dict_writer
OwnWriter_not_kept(csv_headings) ==
  [made |-> FALSE, shared |-> FALSE, fieldnames |-> csv_headings]

\* DictWriter(file_handle, csv_headings): fieldnames is a list of its own
OwnWriter(csv_headings) == [made |-> TRUE, shared |-> FALSE, fieldnames |-> csv_headings]

\* csv_dict_writer.fieldnames
fieldnames(writer, tags) == IF writer.shared THEN tags ELSE writer.fieldnames

\* the text csv writes for a value: None is written as the empty string
csv_text(value) == IF value = None THEN <<>> ELSE value

\* rowdict.keys() - self.fieldnames is not empty
wrong_fields(rowdict, names) ==
  \E i \in 1..Len(rowdict) : ~\E j \in 1..Len(names) : names[j] = rowdict[i].key

\* _dict_to_list: one cell per fieldname, restval "" for a missing key
dict_to_list(rowdict, names) ==
  [j \in 1..Len(names) |-> csv_text(DictGet(rowdict, names[j], <<>>))]

\* writeheader: the line of the column names
HeaderLine(names, op) ==
  [kind |-> "header", cells |-> names, source |-> NotARecord, by |-> op]

\* writerow: the line of one record's cells; source is the record it was written
\* for and by the operation that wrote it
RowLine(rowdict, names, record, op) ==
  [kind |-> "row", cells |-> dict_to_list(rowdict, names), source |-> record, by |-> op]

\* writerows: rows are written one by one until one has a key that is no fieldname
RECURSIVE writerows(_, _, _, _, _)
writerows(out, rowdicts, recs, names, op) ==
  IF rowdicts = <<>> THEN [out |-> out, raised |-> "none"]
  ELSE IF wrong_fields(Head(rowdicts), names) THEN [out |-> out, raised |-> "ValueError"]
  ELSE writerows(Append(out, RowLine(Head(rowdicts), names, Head(recs), op)),
                 Tail(rowdicts), Tail(recs), names, op)

(* ------------------------------- session ------------------------------- *)
\* what the last call was given, built and raised, and the session it started from
Call(op, recs, tags, raised, csv_records) ==
  [op |-> op, recs |-> recs, tags |-> tags, raised |-> raised,
   csv_records |-> csv_records,
   tags_before |-> marc_tags, made_before |-> csv_dict_writer.made,
   lines_before |-> Len(file_handle), records_before |-> Len(records),
   prev |-> [op |-> call.op, recs |-> call.recs],
   row |-> <<>>, line |-> 0, record |-> NotARecord]

NoCall ==
  [op |-> "init", recs |-> <<>>, tags |-> <<>>, raised |-> "none", csv_records |-> <<>>,
   tags_before |-> <<LDR>>, made_before |-> FALSE, lines_before |-> 0,
   records_before |-> 0, prev |-> [op |-> "init", recs |-> <<>>],
   row |-> <<>>, line |-> 0, record |-> NotARecord]

\* no format writer constructed yet
NoFormatWriter == [cls |-> "none", kwargs |-> <<>>, write_count |-> 0]

\* CSVWriter.__init__ and CSVHandler.__init__
Init ==
  /\ marc_tags = <<LDR>>
  /\ csv_dict_writer = NoWriter
  /\ file_handle = <<>>
  /\ call = NoCall
  /\ used = [calls |-> 0, records |-> 0]
  /\ records = <<>>
  /\ texts = <<>>
  /\ format_writer = NoFormatWriter

\* add_tags assigning the new tags instead of extending the list with them
extend_overwrite(list, tags) == tags

\* self.marc_tags.extend(tags)
extend(list, tags) == list \o tags

\* the header line write emits: the sorted marc_tags
write_headings(tags) == tags

\* the header line write_all emits: csv_headings
write_all_headings(tags) == tags \o <<FIELD_ORDER>>

add_tags ==
  /\ used.calls < MaxCalls
  /\ \E tags \in TagLists :
       /\ marc_tags' = extend(marc_tags, tags)
       /\ call' = Call("add_tags", <<>>, tags, "none", <<>>)
  /\ used' = [used EXCEPT !.calls = @ + 1]
  /\ UNCHANGED <<csv_dict_writer, file_handle, records, texts, format_writer>>

write ==
  /\ used.calls < MaxCalls
  /\ used.records < MaxRecords
  /\ \E record \in Records \cup {NotARecord} :
       IF ~IsRecord(record)
       THEN /\ call' = Call("write", <<record>>, <<>>, "WriteNeedsRecord", <<>>)
            /\ UNCHANGED <<marc_tags, csv_dict_writer, file_handle>>
       ELSE LET built == write_fields(record.fields, 1, marc_tags,
                                      <<[key |-> LDR, value |-> record.leader]>>)
            IN IF record.fields # <<>>
               \* " ".join(field_order) over Field objects
               THEN /\ call' = Call("write", <<record>>, <<>>, "TypeError", <<built>>)
                    /\ UNCHANGED <<marc_tags, csv_dict_writer, file_handle>>
               ELSE LET csv_record == DictSet(built, FIELD_ORDER, join(<<" ">>, <<>>))
                        made == csv_dict_writer.made
                        tags1 == IF made THEN marc_tags ELSE sorted(marc_tags)
                        writer1 == IF made THEN csv_dict_writer ELSE SharedWriter
                        out1 == IF made THEN file_handle
                                ELSE Append(file_handle, HeaderLine(write_headings(tags1), "write"))
                        w == writerows(out1, <<csv_record>>, <<record>>,
                                       fieldnames(writer1, tags1), "write")
                    IN /\ marc_tags' = tags1
                       /\ csv_dict_writer' = writer1
                       /\ file_handle' = w.out
                       /\ call' = Call("write", <<record>>, <<>>, w.raised, <<csv_record>>)
  /\ used' = [calls |-> used.calls + 1, records |-> used.records + 1]
  /\ UNCHANGED <<records, texts, format_writer>>

write_all ==
  /\ used.calls < MaxCalls
  /\ \E recs \in SeqsUpTo(Records \cup {NotARecord}, MaxRecords - used.records) :
       LET r == write_all_records(recs, marc_tags, <<>>)
       IN /\ used' = [calls |-> used.calls + 1, records |-> used.records + Len(recs)]
          /\ IF r.raised # "none"
             THEN /\ marc_tags' = r.tags
                  /\ call' = Call("write_all", recs, <<>>, r.raised, r.csv_records)
                  /\ UNCHANGED <<csv_dict_writer, file_handle>>
             ELSE LET made == csv_dict_writer.made
                      tags1 == IF made THEN r.tags ELSE sorted(r.tags)
                      writer1 == IF made THEN csv_dict_writer
                                 ELSE OwnWriter(write_all_headings(tags1))
                      out1 == IF made THEN file_handle
                              ELSE Append(file_handle,
                                          HeaderLine(write_all_headings(tags1), "write_all"))
                      w == writerows(out1, r.csv_records, recs, fieldnames(writer1, tags1),
                                     "write_all")
                  IN /\ marc_tags' = tags1
                     /\ csv_dict_writer' = writer1
                     /\ file_handle' = w.out
                     /\ call' = Call("write_all", recs, <<>>, w.raised, r.csv_records)
  /\ UNCHANGED <<records, texts, format_writer>>

Next == add_tags \/ write \/ write_all

Spec == Init /\ [][Next]_vars

(* ------------------------------ CSVHandler ------------------------------ *)
upper_char(c) ==
  CASE c = "a" -> "A" [] c = "c" -> "C" [] c = "d" -> "D" [] c = "e" -> "E"
    [] c = "f" -> "F" [] c = "i" -> "I" [] c = "l" -> "L" [] c = "o" -> "O"
    [] c = "r" -> "R" [] c = "x" -> "X" [] OTHER -> c

lower_char(c) ==
  CASE c = "A" -> "a" [] c = "D" -> "d" [] c = "E" -> "e" [] c = "G" -> "g"
    [] c = "L" -> "l" [] c = "P" -> "p" [] c = "R" -> "r" [] OTHER -> c

\* field.upper() == "LDR" or field.lower() == "leader"
is_leader_key(field) ==
  \/ [i \in 1..Len(field) |-> upper_char(field[i])] = LDR
  \/ [i \in 1..Len(field) |-> lower_char(field[i])] = <<"l", "e", "a", "d", "e", "r">>

\* [Subfield(code=s[0], value=s[1:]) for s in field_text.split("$")] if field_text else []
element_subfields(field_text) ==
  IF field_text = <<>> THEN <<>>
  ELSE LET pieces == split(field_text, "$")
       IN [i \in 1..Len(pieces) |->
             Subfield(pieces[i][1], SubSeq(pieces[i], 2, Len(pieces[i])))]

\* the body of element's loop for a column that is not the leader:
\* the Field built from the column, or the exception raised on the way
element_field(field, value) ==
  LET text == replace(value, US, "$")
      has == contains(prefix(text, 3), "$")
      p == find(text, "$")
      indicators == IF has THEN prefix(replace(SubSeq(text, 1, p - 1), "\\", " "), 2)
                    ELSE <<>>
      field_text == IF has THEN SubSeq(text, p + 1, Len(text)) ELSE text
  IN IF indicators # <<>>
     THEN IF Len(indicators) < 2
          \* Indicators(*indicators) with one argument
          THEN [raised |-> "TypeError", field |-> ControlField(field, <<>>)]
          ELSE IF field_text # <<>> /\ \E i \in 1..Len(split(field_text, "$")) :
                                          split(field_text, "$")[i] = <<>>
          \* s[0] of an empty piece
          THEN [raised |-> "IndexError", field |-> ControlField(field, <<>>)]
          ELSE [raised |-> "none",
                field |-> DataField(field, indicators[1], indicators[2],
                                    element_subfields(field_text))]
     ELSE [raised |-> "none", field |-> ControlField(field, field_text)]

\* element's loop over the columns i..n of element_dict
RECURSIVE element_loop(_, _, _)
element_loop(element_dict, i, record) ==
  IF i > Len(element_dict) THEN [raised |-> "none", record |-> record]
  ELSE IF is_leader_key(element_dict[i].key)
  THEN element_loop(element_dict, i + 1, [record EXCEPT !.leader = element_dict[i].value])
  ELSE LET f == element_field(element_dict[i].key, element_dict[i].value)
       IN IF f.raised # "none" THEN [raised |-> f.raised, record |-> record]
          ELSE element_loop(element_dict, i + 1,
                            [record EXCEPT !.fields = Append(@, f.field)])

\* self.records.append(record)
process_record(list, record) == Append(list, record)

\* the row a csv reader hands over for a line: the header's columns with the
\* line's cells
RECURSIVE RowDict(_, _, _)
RowDict(names, cells, i) ==
  IF i = 0 THEN <<>> ELSE DictSet(RowDict(names, cells, i - 1), names[i], cells[i])

Item(key, value) == [key |-> key, value |-> value]

\* rows that come from elsewhere: one without a leader column; one with a
\* "leader" column and a numbered column; one with unit separators; one whose
\* control data holds a "$"
ForeignRows ==
  {<<Item(T245, <<"1", "0", "$", "a", "x">>)>>,
   <<Item(<<"l", "e", "a", "d", "e", "r">>, RecordLeader),
     Item(T245 \o <<"_", "2">>, <<"\\", "\\", "$", "a", "x">>)>>,
   <<Item(LDR, RecordLeader), Item(T245, <<"1", "0", US, "a", "x", US, "c">>)>>,
   <<Item(LDR, RecordLeader), Item(T001, <<"a", "$", "b">>)>>}

\* the lines of the file a reader can hand over as rows
ReadableLines ==
  {i \in 1..Len(file_handle) :
     /\ file_handle[i].kind = "row"
     /\ file_handle[1].kind = "header"
     /\ Len(file_handle[i].cells) = Len(file_handle[1].cells)}

element_row(element_dict, line) ==
  LET r == element_loop(element_dict, 1, Record(DefaultLeader, <<>>))
  IN /\ records' = IF r.raised = "none" THEN process_record(records, r.record)
                   ELSE records
     /\ call' = [Call("element", <<>>, <<>>, r.raised, <<>>)
                   EXCEPT !.row = element_dict, !.line = line, !.record = r.record]

element ==
  /\ Len(records) < MaxDecoded
  /\ \/ \E i \in ReadableLines :
          element_row(RowDict(file_handle[1].cells, file_handle[i].cells,
                              Len(file_handle[1].cells)), i)
     \/ \E element_dict \in ForeignRows : element_row(element_dict, 0)
  /\ UNCHANGED <<marc_tags, csv_dict_writer, file_handle, used, texts, format_writer>>

NextCSV == add_tags \/ write \/ write_all \/ element

\* the writer session together with a handler reading its rows back
SpecCSV == Init /\ [][NextCSV]_vars

(* ------------------------------ htmlutils ------------------------------- *)
\* the characters of the texts handed to html_escape_unicode.  ASCII: two
\* letters and the characters of an entity.  Non-ASCII, written by code point:
\* U+00E9 (e acute: no decomposition by the function, entity eacute),
\* U+0101 (a macron: decomposed, no entity for either part),
\* U+0152 (OE ligature: in the decomposed ranges, its own NFD, entity OElig),
\* U+03AA (Iota dialytika: decomposed into Iota, entity Iota, and U+0308),
\* U+0416 (Cyrillic Zhe: not decomposed, no entity)
Alphabet ==
  {"c", "a", "&", "#", ";", "U+00E9", "U+0101", "U+0152", "U+03AA", "U+0416"}

Texts == SeqsUpTo(Alphabet, MaxLen)

\* no character copied through: ASCII characters escaped like the others
isascii_never(char) == FALSE

\* only letters and digits taken for ASCII
isascii_alnum(char) == Ord(char) >= 48 /\ Ord(char) < 128 /\ char # ";"

\* the whole of Latin-1 taken for ASCII
isascii_latin1(char) == Ord(char) < 256

\* char.isascii()
isascii(char) == Ord(char) < 128

\* decompose_diacritics_html decomposing no character
in_allow_list_none(unicode_val) == FALSE

\* the code points decompose_diacritics_html decomposes
in_allow_list(unicode_val) ==
  \/ (unicode_val >= 7936 /\ unicode_val <= 8190)
  \/ (unicode_val >= 256 /\ unicode_val <= 382)
  \/ (unicode_val >= 461 /\ unicode_val <= 496)
  \/ (unicode_val >= 500 /\ unicode_val <= 501)
  \/ (unicode_val >= 504 /\ unicode_val <= 539)
  \/ (unicode_val >= 542 /\ unicode_val <= 543)
  \/ (unicode_val >= 550 /\ unicode_val <= 563)
  \/ (unicode_val >= 768 /\ unicode_val <= 901)
  \/ (unicode_val >= 938 /\ unicode_val <= 944)
  \/ (unicode_val >= 970 /\ unicode_val <= 974)
  \/ (unicode_val >= 979 /\ unicode_val <= 980)
  \/ (unicode_val >= 1024 /\ unicode_val <= 1025)
  \/ (\/ unicode_val = 1027
      \/ unicode_val = 1031
      \/ unicode_val = 1081
      \/ unicode_val = 1107
      \/ unicode_val = 1111)
  \/ (unicode_val >= 1036 /\ unicode_val <= 1038)
  \/ (unicode_val >= 1104 /\ unicode_val <= 1105)
  \/ (unicode_val >= 1116 /\ unicode_val <= 1118)
  \/ (unicode_val >= 1142 /\ unicode_val <= 1143)
  \/ (unicode_val >= 1148 /\ unicode_val <= 1151)
  \/ (unicode_val >= 1154 /\ unicode_val <= 1161)
  \/ (unicode_val >= 1217 /\ unicode_val <= 1218)
  \/ (unicode_val >= 1232 /\ unicode_val <= 1235)
  \/ (unicode_val >= 1238 /\ unicode_val <= 1239)
  \/ (unicode_val >= 1242 /\ unicode_val <= 1247)
  \/ (unicode_val >= 1250 /\ unicode_val <= 1255)
  \/ (unicode_val >= 1258 /\ unicode_val <= 1273)

\* normalize("NFD", char): the canonical decomposition of one character
normalize_NFD(char) ==
  CASE char = "U+00E9" -> <<"e", "U+0301">>
    [] char = "U+0101" -> <<"a", "U+0304">>
    [] char = "U+03AA" -> <<"U+0399", "U+0308">>
    [] OTHER -> <<char>>

\* html.entities.codepoint2name.get(val): the entity name, None without one
codepoint2name_get(val) ==
  CASE val = 38 -> <<"a", "m", "p">>
    [] val = 233 -> <<"e", "a", "c", "u", "t", "e">>
    [] val = 338 -> <<"O", "E", "l", "i", "g">>
    [] val = 921 -> <<"I", "o", "t", "a">>
    [] OTHER -> None

\* the loop body of decompose_diacritics_html: "&name;" or "&#N;" for one
\* character of the decomposition
decomp_entity(decomp_char) ==
  LET decomp_val == Ord(decomp_char)
      decomp_html == codepoint2name_get(decomp_val)
  IN IF decomp_html # None /\ decomp_html # <<>>
     THEN <<"&">> \o decomp_html \o <<";">>
     ELSE <<"&", "#">> \o str(decomp_val) \o <<";">>

\* None for a code point outside the ranges, else the joined entities of the
\* decomposed character
decompose_diacritics_html(char) ==
  IF ~in_allow_list(Ord(char)) THEN None
  ELSE LET norm == normalize_NFD(char)
       IN join(<<>>, [i \in 1..Len(norm) |-> decomp_entity(norm[i])])

\* the loop body of html_escape_unicode: what one character adds to buffer
html_escape_char(char) ==
  IF isascii(char) THEN <<char>>
  ELSE LET diacr == decompose_diacritics_html(char)
       IN IF diacr # None /\ diacr # <<>> THEN diacr
          ELSE LET char_val == Ord(char)
                   found == codepoint2name_get(char_val)
                   new_char == IF found = None \/ found = <<>>
                               THEN <<"#">> \o str(char_val) ELSE found
               IN <<"&">> \o new_char \o <<";">>

\* html_escape_unicode(text) for a str: "".join(buffer)
html_escape_unicode(text) ==
  join(<<>>, [i \in 1..Len(text) |-> html_escape_char(text[i])])

\* one str, not yet handed to html_escape_unicode
InitHTML ==
  /\ marc_tags = <<LDR>>
  /\ csv_dict_writer = NoWriter
  /\ file_handle = <<>>
  /\ call = NoCall
  /\ used = [calls |-> 0, records |-> 0]
  /\ records = <<>>
  /\ texts \in {<<text>> : text \in Texts}
  /\ format_writer = NoFormatWriter

\* html_escape_unicode applied to the value the last application returned
\* (to the str itself the first time); texts keeps every value in order
escape ==
  /\ Len(texts) <= MaxEscapes
  /\ texts' = Append(texts, html_escape_unicode(texts[Len(texts)]))
  /\ UNCHANGED <<marc_tags, csv_dict_writer, file_handle, call, used, records,
                 format_writer>>

NextHTML == escape

SpecHTML == InitHTML /\ [][NextHTML]_vars

(* ---------------------------- format writers ---------------------------- *)
\* the writer classes of writer.py
WriterClasses == {"CSVWriter", "JSONWriter", "MARCWriter", "TextWriter", "XMLWriter"}

\* the keyword arguments a constructor call passes after file_handle: none,
\* html_entities=True, html_entities=False
Kwargs ==
  {<<>>, <<[key |-> "html_entities", value |-> TRUE]>>,
         <<[key |-> "html_entities", value |-> FALSE]>>}

\* the text of the records handed to the writers: "cafe123" with e acute, and
\* an ASCII one
WriterTexts == {<<"c", "a", "f", "U+00E9", "1", "2", "3">>, <<"i", "d">>}

\* a record with the text as a subfield value and as control data
WriterRecord(data) ==
  Record(RecordLeader,
         <<DataField(T245, "0", "0", <<Subfield("a", data)>>), ControlField(T001, data)>>)

\* file_handle.write(literal)
TextOut(literal, cls) ==
  [kind |-> "text", cells |-> <<literal>>, source |-> NotARecord, by |-> cls]

\* file_handle.write of the serialized record: the record as it is when written
RecordOut(record, cls) ==
  [kind |-> "record", cells |-> <<record.fields[1].subfields[1].value, record.fields[2].data>>,
   source |-> record, by |-> cls]

\* what the constructor writes to the file handle
opening(cls) ==
  CASE cls = "JSONWriter" -> <<TextOut("[", cls)>>
    [] cls = "XMLWriter" ->
         <<TextOut("<?xml version=\"1.0\" encoding=\"UTF-8\"?>", cls),
           TextOut("<collection xmlns=\"http://www.loc.gov/MARC21/slim\">", cls)>>
    [] OTHER -> <<>>

\* what write puts between two records
separator(w) ==
  CASE w.cls = "JSONWriter" /\ w.write_count > 0 -> <<TextOut(",", w.cls)>>
    [] w.cls = "TextWriter" /\ w.write_count > 0 -> <<TextOut("\n", w.cls)>>
    [] OTHER -> <<>>

\* the last call on a format writer
WriterCall(op, cls, kwargs, recs, raised) ==
  [op |-> op, cls |-> cls, kwargs |-> kwargs, recs |-> recs, raised |-> raised,
   lines_before |-> Len(file_handle)]

\* one record, no writer constructed yet; texts is the record's text before the
\* first write and after each write
InitWriters ==
  /\ marc_tags = <<LDR>>
  /\ csv_dict_writer = NoWriter
  /\ file_handle = <<>>
  /\ call = NoCall
  /\ used = [calls |-> 0, records |-> 0]
  /\ records = <<>>
  /\ texts \in {<<text>> : text \in WriterTexts}
  /\ format_writer = NoFormatWriter

\* cls(file_handle, **kwargs): every __init__ takes file_handle and nothing else
Writer_init ==
  /\ used.calls < MaxCalls
  /\ \E cls \in WriterClasses, kwargs \in Kwargs :
       IF kwargs # <<>>
       \* __init__() got an unexpected keyword argument 'html_entities'
       THEN /\ call' = WriterCall("__init__", cls, kwargs, <<>>, "TypeError")
            /\ UNCHANGED <<format_writer, file_handle>>
       ELSE /\ format_writer' = [cls |-> cls, kwargs |-> kwargs, write_count |-> 0]
            /\ file_handle' = file_handle \o opening(cls)
            /\ call' = WriterCall("__init__", cls, kwargs, <<>>, "none")
  /\ used' = [used EXCEPT !.calls = @ + 1]
  /\ UNCHANGED <<marc_tags, csv_dict_writer, records, texts>>

\* JSONWriter.write, MARCWriter.write, TextWriter.write, XMLWriter.write
Writer_write ==
  /\ used.calls < MaxCalls
  /\ used.records < MaxRecords
  /\ format_writer.cls \in WriterClasses \ {"CSVWriter"}
  /\ \E record \in {WriterRecord(texts[Len(texts)]), NotARecord} :
       IF ~IsRecord(record)
       THEN /\ call' = WriterCall("write", format_writer.cls, <<>>, <<record>>,
                                  "WriteNeedsRecord")
            /\ UNCHANGED <<format_writer, file_handle, texts>>
       ELSE /\ file_handle' = file_handle \o separator(format_writer)
                                \o <<RecordOut(record, format_writer.cls)>>
            /\ format_writer' =
                 IF format_writer.cls \in {"JSONWriter", "TextWriter"}
                 THEN [format_writer EXCEPT !.write_count = @ + 1]
                 ELSE format_writer
            \* the record is read, not assigned to
            /\ texts' = Append(texts, record.fields[2].data)
            /\ call' = WriterCall("write", format_writer.cls, <<>>, <<record>>, "none")
  /\ used' = [calls |-> used.calls + 1, records |-> used.records + 1]
  /\ UNCHANGED <<marc_tags, csv_dict_writer, records>>

NextWriters == Writer_init \/ Writer_write

SpecWriters == InitWriters /\ [][NextWriters]_vars

(* ------------------------------- claims --------------------------------- *)
\* record A (only tag 245) and record B (tags 245 and 260)
RecordA == Record(RecordLeader, <<D245>>)
RecordB == Record(RecordLeader, <<D245, D260>>)

Blank(ind) == ind \in {" ", "", NoneChar}

SameIndicator(a, b) == a = b \/ (Blank(a) /\ Blank(b))

SameField(f, g) ==
  /\ f.tag = g.tag
  /\ SameIndicator(f.indicator1, g.indicator1)
  /\ SameIndicator(f.indicator2, g.indicator2)
  /\ f.subfields = g.subfields
  /\ f.data = g.data

\* same leader and the same fields in the same order
SameRecord(a, b) ==
  /\ a.leader = b.leader
  /\ Len(a.fields) = Len(b.fields)
  /\ \A i \in 1..Len(a.fields) : i \in 1..Len(b.fields) => SameField(a.fields[i], b.fields[i])

NoRepeatedTag(record) ==
  \A i, j \in 1..Len(record.fields) :
    i # j => record.fields[i].tag # record.fields[j].tag

\* the handler has just decoded a line that write_all wrote
DecodedWrittenLine ==
  /\ call.op = "element"
  /\ call.line > 0
  /\ file_handle[call.line].by = "write_all"

\* the decoded record is the one the line was written for
DecodedIsSource ==
  /\ call.raised = "none"
  /\ Len(records) = call.records_before + 1
  /\ SameRecord(records[Len(records)], file_handle[call.line].source)

\* C1: a record without a repeated tag, written by write_all and decoded from
\* its row by element, comes back equal: same leader, same fields, same order.
C1_RoundTrip ==
  (DecodedWrittenLine /\ NoRepeatedTag(file_handle[call.line].source)) => DecodedIsSource

\* C2: a record with a repeated tag, written by write_all and decoded from its
\* row by element, keeps every field's tag, indicators and subfields, in the
\* original field order.
C2_RoundTripRepeated ==
  (DecodedWrittenLine /\ ~NoRepeatedTag(file_handle[call.line].source)) => DecodedIsSource

\* the column key of the j-th field: the tag, or "{tag}_{k}" for the k-th field
\* with that tag
ColumnKey(fields, j) ==
  LET k == Cardinality({i \in 1..j : fields[i].tag = fields[j].tag})
  IN IF k >= 2 THEN fields[j].tag \o <<"_">> \o str(k) ELSE fields[j].tag

IsControlField(f) == f.data # None

\* the cell of a field: raw data for a control field, enc(ind1) enc(ind2) and
\* "$" code value per subfield for a data field
ExpectedCell(f) ==
  IF IsControlField(f) THEN f.data
  ELSE <<IF Blank(f.indicator1) THEN "\\" ELSE f.indicator1,
         IF Blank(f.indicator2) THEN "\\" ELSE f.indicator2>>
       \o join(<<>>, [i \in 1..Len(f.subfields) |->
                        <<"$", f.subfields[i].code>> \o f.subfields[i].value])

EncodingCall == call.op \in {"write", "write_all"}

\* C3: in every row built by write or write_all, LDR is the leader verbatim and
\* the cell of each field is the data field / control field encoding, a data
\* field without subfields included.
C3_Cells ==
  EncodingCall =>
    \A i \in 1..Len(call.csv_records) :
      LET row == call.csv_records[i]
          fields == call.recs[i].fields
      IN /\ DictGet(row, LDR, <<>>) = call.recs[i].leader
         /\ \A j \in 1..Len(fields) :
              HasKey(row, ColumnKey(fields, j)) =>
                DictGet(row, ColumnKey(fields, j), <<>>) = ExpectedCell(fields[j])

\* C4: in every row built by write or write_all, the cell of each field that is
\* stored sits under its own column key, control fields and data fields alike
\* (for write, the fields whose column key is in the schema are the stored ones).
C4_Keys ==
  EncodingCall =>
    \A i \in 1..Len(call.csv_records) :
      LET row == call.csv_records[i]
          fields == call.recs[i].fields
      IN \A j \in 1..Len(fields) :
           (call.op = "write_all"
              \/ \E t \in 1..Len(call.tags_before) :
                   call.tags_before[t] = ColumnKey(fields, j))
           => HasKey(row, ColumnKey(fields, j))

IsDigit(c) == c \in {"0", "1", "2", "3", "4", "5", "6", "7", "8", "9"}

\* the positions of a "_" that only digits follow, at least one
SuffixStarts(key) ==
  {p \in 1..(Len(key) - 1) : key[p] = "_" /\ \A q \in (p + 1)..Len(key) : IsDigit(key[q])}

\* the column key without a trailing "_<digits>"
StripSuffix(key) ==
  IF SuffixStarts(key) = {} THEN key
  ELSE SubSeq(key, 1, (CHOOSE p \in SuffixStarts(key) : TRUE) - 1)

NotLeaderItem(item) == ~is_leader_key(item.key)

\* C5: the field element builds from a column has the column key without its
\* trailing "_<digits>" as its tag.
C5_Tags ==
  (call.op = "element" /\ call.raised = "none") =>
    LET columns == SelectSeq(call.row, NotLeaderItem)
        decoded == records[Len(records)]
    IN /\ Len(decoded.fields) = Len(columns)
       /\ \A i \in 1..Len(columns) :
            i \in 1..Len(decoded.fields) =>
              decoded.fields[i].tag = StripSuffix(columns[i].key)

\* C6: element on a row without a leader column fails with MalformedRowError
\* and leaves the handler's list of records as it was.
C6_NoLeaderFails ==
  (call.op = "element" /\ ~\E i \in 1..Len(call.row) : is_leader_key(call.row[i].key))
  => (call.raised = "MalformedRowError" /\ Len(records) = call.records_before)

ColumnsNamed(key) ==
  {c \in 1..Len(file_handle[1].cells) : file_handle[1].cells[c] = key}

\* the header has the columns 245 and 260, and the line of record A has nothing
\* in its 260 cell
HeaderHasBoth ==
  /\ Len(file_handle) >= 2
  /\ file_handle[1].kind = "header"
  /\ ColumnsNamed(T245) # {}
  /\ ColumnsNamed(T260) # {}
  /\ \E n \in 2..Len(file_handle) :
       /\ file_handle[n].kind = "row"
       /\ file_handle[n].source = RecordA
       /\ \A c \in ColumnsNamed(T260) :
            c \in 1..Len(file_handle[n].cells) /\ file_handle[n].cells[c] = <<>>

\* record A then record B in one write_all call that emits the header
ABInOneCall ==
  /\ call.op = "write_all"
  /\ call.recs = <<RecordA, RecordB>>
  /\ ~call.made_before

\* record A then record B in two calls of op, on a new session
ABInTwoCalls(op) ==
  /\ used.calls = 2
  /\ call.op = op
  /\ call.recs = <<RecordB>>
  /\ call.prev.op = op
  /\ call.prev.recs = <<RecordA>>

\* C7 as stated: A then B through one write_all call, two write_all calls or
\* two write calls gives a header with 245 and 260 and an empty 260 cell for A.
C7_AnyPath ==
  (ABInOneCall \/ ABInTwoCalls("write_all") \/ ABInTwoCalls("write")) => HeaderHasBoth

\* C7 amended: A then B through one write_all call on a session that has not
\* emitted its header gives a header with 245 and 260 and an empty 260 cell
\* for A.
C7_OneWriteAll == ABInOneCall => (call.raised = "none" /\ HeaderHasBoth)

C7_Witness == ABInOneCall /\ call.raised = "none" /\ Len(call.tags_before) > 1

\* some field of the call's records has a column key the emitted header lacks
LateColumn ==
  /\ EncodingCall
  /\ call.made_before
  /\ \A i \in 1..Len(call.recs) : IsRecord(call.recs[i])
  /\ \E i \in 1..Len(call.recs) : \E j \in 1..Len(call.recs[i].fields) :
       ColumnsNamed(ColumnKey(call.recs[i].fields, j)) = {}

\* C8: after the header is emitted, a call whose record has a field with a
\* column key the header lacks does not raise, writes one row per record and
\* leaves the header as emitted.
C8_LateFieldDropped ==
  LateColumn =>
    /\ call.raised = "none"
    /\ Len(file_handle) = call.lines_before + Len(call.recs)
    /\ fieldnames(csv_dict_writer, marc_tags) = file_handle[1].cells

\* C9: no call removes a column name from marc_tags, and "LDR" is always in it.
C9_SchemaGrows ==
  /\ [](\E i \in 1..Len(marc_tags) : marc_tags[i] = LDR)
  /\ [][\A i \in 1..Len(marc_tags) :
          \E j \in 1..Len(marc_tags') : marc_tags'[j] = marc_tags[i]]_vars

\* the schema grew to hold a numbered column in a write_all call made after the
\* header was emitted
C9_Witness ==
  /\ call.op = "write_all"
  /\ call.made_before
  /\ Len(marc_tags) > Len(call.tags_before)
  /\ \E i \in 1..Len(marc_tags) : marc_tags[i] = T001 \o <<"_", "2">>

\* C10: the header line is sorted(schema) followed by "field_order", whichever
\* of write and write_all emits it; "field_order" is its last cell and only
\* there.
C10_Header ==
  /\ (csv_dict_writer.made /\ ~call.made_before)
       => file_handle[1].cells = sorted(marc_tags) \o <<FIELD_ORDER>>
  /\ (file_handle # <<>> /\ file_handle[1].kind = "header")
       => /\ file_handle[1].cells[Len(file_handle[1].cells)] = FIELD_ORDER
          /\ Cardinality(ColumnsNamed(FIELD_ORDER)) = 1

\* the column keys of a record's fields, in the order of the fields
ColumnKeys(fields) == [j \in 1..Len(fields) |-> ColumnKey(fields, j)]

\* C11: in every row built by write or write_all, "field_order" is the column
\* keys of the record's fields joined by spaces, in field order, one per field.
C11_FieldOrder ==
  EncodingCall =>
    \A i \in 1..Len(call.csv_records) :
      DictGet(call.csv_records[i], FIELD_ORDER, None)
        = join(<<" ">>, ColumnKeys(call.recs[i].fields))

\* the documented single-record usage: add_tags(T), then write of a Record
WriteAfterAddTags ==
  /\ used.calls = 2
  /\ call.op = "write"
  /\ call.prev.op = "add_tags"
  /\ IsRecord(call.recs[1])

\* the lines of kind "row" the last call added to the output
RowsAdded ==
  {n \in (call.lines_before + 1)..Len(file_handle) : file_handle[n].kind = "row"}

\* C15: add_tags(T) followed by write(r) with a Record r, with or without
\* fields, completes without raising and adds exactly one data row.
C15_WriteCompletes ==
  WriteAfterAddTags => (call.raised = "none" /\ Cardinality(RowsAdded) = 1)

\* a write_all call whose list holds an element that is no Record
BadElement ==
  /\ call.op = "write_all"
  /\ \E i \in 1..Len(call.recs) : ~IsRecord(call.recs[i])

\* C18: write_all on a list with an element that is no Record raises
\* WriteNeedsRecord, writes nothing, and leaves marc_tags and the
\* header-emitted state as they were before the call.
C18_AllOrNothing ==
  BadElement =>
    /\ call.raised = "WriteNeedsRecord"
    /\ Len(file_handle) = call.lines_before
    /\ csv_dict_writer.made = call.made_before
    /\ marc_tags = call.tags_before

\* C19: the header line is the first line of the output and the only header
\* line, and the output has a line exactly when the session has made its
\* DictWriter, which is when it wrote the header.
C19_HeaderOnce ==
  /\ \A n \in 1..Len(file_handle) : (file_handle[n].kind = "header") <=> (n = 1)
  /\ csv_dict_writer.made <=> (file_handle # <<>>)

\* a call made after the header was emitted has added a data row
C19_Witness ==
  /\ EncodingCall
  /\ call.made_before
  /\ call.lines_before >= 2
  /\ RowsAdded # {}

IsASCII(c) == Ord(c) \in 0..127

AllASCII(s) == \A i \in 1..Len(s) : IsASCII(s[i])

\* html_escape_unicode has been applied to the str texts[1]
Escaped == Len(texts) >= 2

\* C13: html_escape_unicode(s) = s for every s whose characters are all ASCII,
\* the empty string and strings with "&", "#" or ";" included.
C13_AsciiUnchanged == (Escaped /\ AllASCII(texts[1])) => texts[2] = texts[1]

\* an ASCII str with "&" and one of "#", ";" has been escaped
C13_Witness ==
  /\ Escaped
  /\ AllASCII(texts[1])
  /\ contains(texts[1], "&")
  /\ contains(texts[1], "#") \/ contains(texts[1], ";")

\* the code points of the allow-list ranges
AllowList ==
  (7936..8190) \cup (256..382) \cup (461..496) \cup (500..501) \cup (504..539)
    \cup (542..543) \cup (550..563) \cup (768..901) \cup (938..944)
    \cup (970..974) \cup (979..980) \cup (1024..1025)
    \cup {1027, 1031, 1081, 1107, 1111} \cup (1036..1038) \cup (1104..1105)
    \cup (1116..1118) \cup (1142..1143) \cup (1148..1151) \cup (1154..1161)
    \cup (1217..1218) \cup (1232..1235) \cup (1238..1239) \cup (1242..1247)
    \cup (1250..1255) \cup (1258..1273)

\* "&name;" when the code point of c has a named entity, "&#N;" otherwise
Entity(c) ==
  IF codepoint2name_get(Ord(c)) # None
  THEN <<"&">> \o codepoint2name_get(Ord(c)) \o <<";">>
  ELSE <<"&", "#">> \o str(Ord(c)) \o <<";">>

RECURSIVE Concat(_)
Concat(parts) == IF parts = <<>> THEN <<>> ELSE Head(parts) \o Concat(Tail(parts))

\* the replacement of one character
Replacement(c) ==
  IF IsASCII(c) THEN <<c>>
  ELSE IF Ord(c) \in AllowList
  THEN Concat([i \in 1..Len(normalize_NFD(c)) |-> Entity(normalize_NFD(c)[i])])
  ELSE Entity(c)

\* C14: html_escape_unicode(s) is the concatenation, in input order, of each
\* character's replacement: the character itself when ASCII, the entities of
\* its NFD code points when allow-listed, its own entity otherwise; a named
\* entity where there is one, the decimal code point where there is none.
C14_PerCharacter ==
  Escaped => texts[2] = Concat([i \in 1..Len(texts[1]) |-> Replacement(texts[1][i])])

\* a str with an allow-listed character that decomposes and a non-ASCII
\* character outside the allow-list has been escaped
C14_Witness ==
  /\ Escaped
  /\ \E i \in 1..Len(texts[1]) :
       Ord(texts[1][i]) \in AllowList /\ Len(normalize_NFD(texts[1][i])) = 2
  /\ \E i \in 1..Len(texts[1]) :
       ~IsASCII(texts[1][i]) /\ Ord(texts[1][i]) \notin AllowList

\* html_escape_unicode has been applied to its own result
EscapedTwice == Len(texts) >= 3

\* C16 as stated: for a text with a non-ASCII character, the second
\* application changes the already-escaped text again.
C16_Compounds == (EscapedTwice /\ ~AllASCII(texts[1])) => texts[3] # texts[2]

\* C16 amended: a second application leaves the escaped text as it is,
\* html_escape_unicode(html_escape_unicode(s)) = html_escape_unicode(s).
C16_Idempotent == EscapedTwice => texts[3] = texts[2]

\* a text the first application changed has been escaped a second time
C16_Witness == EscapedTwice /\ texts[2] # texts[1] /\ ~AllASCII(texts[1])

\* C17: every character of html_escape_unicode(s) is ASCII.
C17_OutputAscii == \A k \in 2..Len(texts) : AllASCII(texts[k])

\* a text with a character that has no named entity and one that has, both
\* non-ASCII, has been escaped
C17_Witness ==
  /\ Escaped
  /\ contains(texts[1], "U+0416")
  /\ contains(texts[1], "U+00E9") \/ contains(texts[1], "U+0152")

\* the keyword arguments hold html_entities with this value
HasOption(kwargs, value) ==
  \E i \in 1..Len(kwargs) : kwargs[i].key = "html_entities" /\ kwargs[i].value = value

\* C12: every writer class accepts the html_entities option; a write by a
\* writer constructed with html_entities=True leaves the record's text
\* escaped, a write by any other writer leaves it as it was.
C12_HtmlEntities ==
  /\ call.op = "__init__" => call.raised = "none"
  /\ (call.op = "write" /\ call.raised = "none")
       => texts[Len(texts)] =
            IF HasOption(format_writer.kwargs, TRUE)
            THEN html_escape_unicode(texts[Len(texts) - 1])
            ELSE texts[Len(texts) - 1]

====
